---- MODULE Spec2Model ----
(***************************************************************************)
(* A model of crates/mipsevm: the MipsEVM differential-testing harness     *)
(* (evm.rs) and the witness serialization helpers (ser.rs).                *)
(*                                                                         *)
(* Bytes are integers 0..255, byte strings and texts are sequences of      *)
(* bytes (a text is the sequence of its ASCII codes).  The revm engine is  *)
(* an external collaborator: it is modelled as a deterministic function of *)
(* the transaction and of the part of the database an execution reads,     *)
(* whose values are fixed the first time they are asked for (engine).      *)
(***************************************************************************)
EXTENDS Integers, Sequences, FiniteSets, TLC

\* ---------------------------------------------------------------- bounds

\* Operations (try_init or step) started on one environment.
MaxOps == 3
\* Log records one engine execution may emit.
MaxLogs == 2
\* Length of the variable-length buffers given to vec_u8_hex.
MaxLen == 2

\* ------------------------------------------------------------ byte helpers

Byte == 0..255

Fill(n, b) == [i \in 1..n |-> b]

\* The environments: 1 is the environment under test, 2 is the second fresh
\* environment of the determinism experiment.
Envs == {1, 2}

\* ------------------------------------------------------- evm.rs constants

\* B160::zero(), the sentinel sender.
ZERO_ADDR == Fill(20, 0)

\* hex!("000000000000000000000000000000000000C0DE")
MIPS_ADDR == [i \in 1..20 |-> IF i = 19 THEN 192 ELSE IF i = 20 THEN 222 ELSE 0]

\* hex!("00000000000000000000000000000000424f4f4b")
PREIMAGE_ORACLE_ADDR ==
  [i \in 1..20 |-> CASE i = 17 -> 66 [] i = 18 -> 79 [] i = 19 -> 79 [] i = 20 -> 75
                     [] OTHER -> 0]

\* hex::decode(MIPS_CREATION_CODE): the blob is a build artifact (bindings/),
\* its bytes are not interpreted by the harness; a short stand-in.
MIPS_CREATION_CODE == <<96, 160, 96, 64>>

\* hex::decode(PREIMAGE_ORACLE_DEPLOYED_CODE): likewise a stand-in.
PREIMAGE_ORACLE_DEPLOYED_CODE == <<96, 128, 96, 64>>

\* Address::into_word: the 20 bytes left-padded with 12 zero bytes.
into_word(a) == [i \in 1..32 |-> IF i <= 12 THEN 0 ELSE a[i - 12]]

\* Balances are counted in units of u128::MAX, the only non-zero amount the
\* harness writes (every transaction carries value 0 and gas price 0).
U128_MAX_BALANCE == 1

\* ------------------------------------------------- hex (alloy_primitives)

\* The ASCII code of a lowercase hex digit.
HexDigit(n) == IF n < 10 THEN 48 + n ELSE 87 + n

\* hex::encode writing the digits in upper case.
hex_encode_upper(bytes) ==
  [i \in 1..(2 * Len(bytes)) |->
     LET n == IF i % 2 = 1 THEN bytes[(i + 1) \div 2] \div 16 ELSE bytes[i \div 2] % 16
     IN IF n < 10 THEN 48 + n ELSE 55 + n]

\* hex::encode: two lowercase digits per byte, high nibble first.
hex_encode(bytes) ==
  [i \in 1..(2 * Len(bytes)) |->
     IF i % 2 = 1 THEN HexDigit(bytes[(i + 1) \div 2] \div 16)
     ELSE HexDigit(bytes[i \div 2] % 16)]

\* The value of a hex digit of either case, -1 for any other character.
HexVal(c) ==
  CASE c >= 48 /\ c <= 57 -> c - 48
    [] c >= 97 /\ c <= 102 -> c - 87
    [] c >= 65 /\ c <= 70 -> c - 55
    [] OTHER -> -1

DecodeOk(bytes) == [ok |-> TRUE, val |-> bytes, err |-> ""]
DecodeErr(why) == [ok |-> FALSE, val |-> <<>>, err |-> why]

\* hex::decode: an optional "0x" prefix is stripped; an odd number of digits
\* or a character that is no hex digit is an error.
hex_decode(s) ==
  LET body == IF Len(s) >= 2 /\ s[1] = 48 /\ s[2] = 120
              THEN SubSeq(s, 3, Len(s)) ELSE s
  IN IF Len(body) % 2 = 1 THEN DecodeErr("OddLength")
     ELSE IF \E i \in 1..Len(body) : HexVal(body[i]) < 0
     THEN DecodeErr("InvalidHexCharacter")
     ELSE DecodeOk([j \in 1..(Len(body) \div 2) |->
                      16 * HexVal(body[2 * j - 1]) + HexVal(body[2 * j])])

\* ------------------------------------------------ base64 (BASE64_STANDARD)

\* The ASCII code of the symbol of a 6-bit value: A-Z a-z 0-9 + /
B64Char(n) ==
  CASE n < 26 -> 65 + n
    [] n < 52 -> 71 + n
    [] n < 62 -> n - 4
    [] n = 62 -> 43
    [] OTHER -> 47

\* The 6-bit value of a symbol, -1 for a character outside the alphabet.
B64Val(c) ==
  CASE c >= 65 /\ c <= 90 -> c - 65
    [] c >= 97 /\ c <= 122 -> c - 71
    [] c >= 48 /\ c <= 57 -> c + 4
    [] c = 43 -> 62
    [] c = 47 -> 63
    [] OTHER -> -1

ByteOr0(b, i) == IF i <= Len(b) THEN b[i] ELSE 0

\* Engine::encode: four symbols per three bytes, padded with '='.
base64_encode(b) ==
  [i \in 1..(4 * ((Len(b) + 2) \div 3)) |->
     LET g == (i - 1) \div 4
         k == (i - 1) % 4
         b0 == ByteOr0(b, 3 * g + 1)
         b1 == ByteOr0(b, 3 * g + 2)
         b2 == ByteOr0(b, 3 * g + 3)
     IN CASE k = 0 -> B64Char(b0 \div 4)
          [] k = 1 -> B64Char((b0 % 4) * 16 + b1 \div 16)
          [] k = 2 -> IF 3 * g + 2 > Len(b) THEN 61
                      ELSE B64Char((b1 % 16) * 4 + b2 \div 64)
          [] OTHER -> IF 3 * g + 3 > Len(b) THEN 61 ELSE B64Char(b2 % 64)]

\* Engine::decode: the length is a multiple of four, every symbol before the
\* padding is in the alphabet, and the bits the padding leaves over are zero.
base64_decode(s) ==
  LET n == Len(s)
      pad == IF n >= 1 /\ s[n] = 61 THEN (IF n >= 2 /\ s[n - 1] = 61 THEN 2 ELSE 1) ELSE 0
      v(i) == B64Val(s[i])
  IN IF n % 4 # 0 THEN DecodeErr("InvalidPadding")
     ELSE IF \E i \in 1..(n - pad) : v(i) < 0 THEN DecodeErr("InvalidByte")
     ELSE IF (pad = 1 /\ v(n - 1) % 4 # 0) \/ (pad = 2 /\ v(n - 2) % 16 # 0)
     THEN DecodeErr("InvalidLastSymbol")
     ELSE DecodeOk([j \in 1..(3 * (n \div 4) - pad) |->
                      LET g == (j - 1) \div 3
                          k == (j - 1) % 3
                      IN CASE k = 0 -> v(4 * g + 1) * 4 + v(4 * g + 2) \div 16
                           [] k = 1 -> (v(4 * g + 2) % 16) * 16 + v(4 * g + 3) \div 4
                           [] OTHER -> (v(4 * g + 3) % 4) * 64 + v(4 * g + 4)])

\* ------------------------------------------------------------ zlib (flate2)

\* The sum of f[lo..hi] modulo 65521, Adler-32's modulus.
RECURSIVE RangeSum(_, _, _)
RangeSum(f, lo, hi) ==
  IF lo > hi THEN 0
  ELSE IF lo = hi THEN f[lo] % 65521
  ELSE LET mid == (lo + hi) \div 2
       IN (RangeSum(f, lo, mid) + RangeSum(f, mid + 1, hi)) % 65521

\* The Adler-32 checksum that ends a zlib stream, as four bytes.
Adler32(data) ==
  LET n == Len(data)
      a == (1 + RangeSum(data, 1, n)) % 65521
      w == [i \in 1..n |-> ((n - i + 1) * data[i]) % 65521]
      b == (n + RangeSum(w, 1, n)) % 65521
  IN <<b \div 256, b % 256, a \div 256, a % 256>>

\* compress_bytes: ZlibEncoder at Compression::fast().  The deflate coding is
\* outside the codec; the stream is modelled in zlib's stored form: the header
\* 78 01, one final stored block (LEN, NLEN, the data) and the checksum.  Any
\* zlib stream starts with 0x78 followed by a byte that is no base64 symbol.
compress_bytes(data) ==
  LET n == Len(data)
  IN <<120, 1, 1, n % 256, n \div 256, 255 - (n % 256), 255 - (n \div 256)>>
       \o data \o Adler32(data)

\* decompress_bytes: ZlibDecoder::read_to_end; a stream that is truncated,
\* has a bad header or a bad checksum is an io::Error.
decompress_bytes(c) ==
  IF Len(c) < 11 THEN DecodeErr("corrupt deflate stream")
  ELSE LET n == c[4] + 256 * c[5]
           data == SubSeq(c, 8, 7 + n)
       IN IF c[1] # 120 \/ (c[1] * 256 + c[2]) % 31 # 0 \/ c[3] # 1
             \/ c[6] # 255 - c[4] \/ c[7] # 255 - c[5] \/ Len(c) # n + 11
          THEN DecodeErr("corrupt deflate stream")
          ELSE IF SubSeq(c, 8 + n, 11 + n) # Adler32(data)
          THEN DecodeErr("corrupt deflate stream")
          ELSE DecodeOk(data)

\* ----------------------------------------------------- Option<T> encoding

None == <<>>
Some(x) == <<x>>
IsSome(o) == Len(o) = 1

\* ------------------------------------------------ witness codec (witness.rs)

\* crate::witness::STATE_WITNESS_SIZE, the fixed length of an encoded state.
STATE_WITNESS_SIZE == 226

\* crate::page::PAGE_SIZE.
PAGE_SIZE == 4096

\* ------------------------------------------------------ serde data model

VARIABLES
  codec,     \* the ser.rs module in use
  given,     \* the byte buffer in hand
  lenient,   \* whether the data format hands UTF-8 bytes to a string visitor
  wire,      \* Some(serialized value), once there is one
  got,       \* what the last deserialize gave
  sphase     \* "off", "start", "serialized", "foreign", "roundtrip", "decoded"

\* What a Serializer is given: serialize_str(text) or serialize_bytes(bytes).
WireStr(text) == [kind |-> "str", data |-> text]
WireBytes(bytes) == [kind |-> "bytes", data |-> bytes]

\* String::deserialize: a string comes back as it is; bytes are accepted only
\* by a format that hands them to the string visitor, and only as ASCII text.
StringDeserialize(w, fmtLenient) ==
  IF w.kind = "str" THEN DecodeOk(w.data)
  ELSE IF fmtLenient /\ \A i \in 1..Len(w.data) : w.data[i] < 128
  THEN DecodeOk(w.data)
  ELSE DecodeErr("invalid type: byte array, expected a string")

\* What deserialize gives its caller: Ok(array), Err(error), or a panic.
DeOk(bytes) == [tag |-> "Ok", val |-> bytes, why |-> ""]
DeErr(why) == [tag |-> "Err", val |-> <<>>, why |-> why]
DePanic(why) == [tag |-> "Panic", val |-> <<>>, why |-> why]

\* let mut array = [0u8; $size]; array.copy_from_slice(&bytes); array
\* copy_from_slice panics when the two lengths differ.
CopyIntoArray(size, bytes) ==
  IF Len(bytes) # size
  THEN DePanic("source slice length does not match destination slice length")
  ELSE DeOk(bytes)

\* ----------------------------------------------------------------- ser.rs

\* fixed_hex_ser!::serialize and vec_u8_hex::serialize
HexSerialize(bytes) == WireStr(<<48, 120>> \o hex_encode(bytes))

\* fixed_hex_ser!::deserialize
FixedHexDeserialize(size, w, fmtLenient) ==
  LET s == StringDeserialize(w, fmtLenient)
  IN IF ~s.ok THEN DeErr(s.err)
     ELSE LET d == hex_decode(s.val)
          IN IF ~d.ok THEN DeErr(d.err) ELSE CopyIntoArray(size, d.val)

\* vec_u8_hex::deserialize
VecHexDeserialize(w, fmtLenient) ==
  LET s == StringDeserialize(w, fmtLenient)
  IN IF ~s.ok THEN DeErr(s.err)
     ELSE LET d == hex_decode(s.val)
          IN IF ~d.ok THEN DeErr(d.err) ELSE DeOk(d.val)

\* fixed_base64_ser!::serialize: base64 text first, then compressed, handed
\* to the serializer as bytes.
Base64Serialize(bytes) == WireBytes(compress_bytes(base64_encode(bytes)))

\* fixed_base64_ser!::deserialize: a string is read, base64-decoded, and the
\* decoded bytes are decompressed.
FixedBase64Deserialize(size, w, fmtLenient) ==
  LET s == StringDeserialize(w, fmtLenient)
  IN IF ~s.ok THEN DeErr(s.err)
     ELSE LET decoded == base64_decode(s.val)
          IN IF ~decoded.ok THEN DeErr(decoded.err)
             ELSE LET z == decompress_bytes(decoded.val)
                  IN IF ~z.ok THEN DeErr(z.err) ELSE CopyIntoArray(size, z.val)

\* The modules the macros generate, and vec_u8_hex (size None).
Codecs ==
  {[name |-> "fixed_32_hex", form |-> "hex", size |-> Some(32)],
   [name |-> "page_hex", form |-> "hex", size |-> Some(PAGE_SIZE)],
   [name |-> "state_witness_hex", form |-> "hex", size |-> Some(STATE_WITNESS_SIZE)],
   [name |-> "vec_u8_hex", form |-> "hex", size |-> None],
   [name |-> "fixed_32_base64", form |-> "base64", size |-> Some(32)],
   [name |-> "page_base64", form |-> "base64", size |-> Some(PAGE_SIZE)],
   [name |-> "state_witness_base64", form |-> "base64", size |-> Some(STATE_WITNESS_SIZE)]}

Serialize(c, bytes) ==
  IF c.form = "hex" THEN HexSerialize(bytes) ELSE Base64Serialize(bytes)

Deserialize(c, w, fmtLenient) ==
  IF c.form = "base64" THEN FixedBase64Deserialize(c.size[1], w, fmtLenient)
  ELSE IF IsSome(c.size) THEN FixedHexDeserialize(c.size[1], w, fmtLenient)
  ELSE VecHexDeserialize(w, fmtLenient)

\* ------------------------------------------------------- state fingerprint

RECURSIVE StrideSum(_, _)
StrideSum(buf, j) ==
  IF j > Len(buf) THEN 0 ELSE (buf[j] * ((j \div 32) + 1) + StrideSum(buf, j + 32)) % 256

\* StateWitnessHasher::state_hash: a fixed-output (32-byte) digest of the whole
\* encoded buffer.  The hash algorithm is outside the harness; this stand-in
\* folds every byte of the buffer into the digest.
state_hash(buf) == [i \in 1..32 |-> StrideSum(buf, i)]

\* TryFrom<&[u8]> for StateWitness: fails unless the slice has the fixed size.
TryIntoStateWitness(data) ==
  IF Len(data) = STATE_WITNESS_SIZE THEN [ok |-> TRUE, val |-> data]
  ELSE [ok |-> FALSE, val |-> <<>>]

\* Encoded machine states the engine's modules may emit in a log.
StateSamples == {Fill(STATE_WITNESS_SIZE, 0), Fill(STATE_WITNESS_SIZE, 1)}

\* ------------------------------------------------------------ StepWitness

\* The preimage keys a witness may disclose; key 2 has an illegal key type,
\* for which encode_preimage_oracle_input yields None.
GoodKeys == {1}
IllegalKeys == {2}

\* The step witnesses the test driver submits: one pre-state, one proof, and
\* an optional preimage disclosure.
Witnesses ==
  [state : {Fill(STATE_WITNESS_SIZE, 0)}, proof : {<<7>>},
   preimage_key : {None} \cup {Some(k) : k \in GoodKeys \cup IllegalKeys}]

\* StepWitness::has_preimage
has_preimage(w) == IsSome(w.preimage_key)

\* StepWitness::encode_preimage_oracle_input: selector + (key, offset, data),
\* or None when the disclosure cannot be encoded.
encode_preimage_oracle_input(w) ==
  IF ~IsSome(w.preimage_key) \/ w.preimage_key[1] \in IllegalKeys THEN None
  ELSE Some(<<225, 89, 38, 17, w.preimage_key[1]>>)

\* StepWitness::encode_step_input: selector + (state, proof).
encode_step_input(w) == <<248, 224, 203, 150>> \o w.state \o w.proof

\* ------------------------------------------------- CacheDB<EmptyDB> (revm)

VARIABLES
  db,        \* db[e]: the environment's committed accounts and contracts
  tx,        \* tx[e]: self.inner.env.tx, the transaction environment
  pc,        \* pc[e]: where the running operation stands ("idle" between operations)
  ret,       \* ret[e]: what the last finished operation returned
  witness,   \* witness[e]: the StepWitness of the running / last step
  res,       \* res[e]: the engine's answer to the StepCall, read by the validation
  calls,     \* calls[e]: the engine calls issued by the running / last operation
  entryDb,   \* entryDb[e]: the database when the running / last operation began
  hist,      \* hist[e]: the operations started on the environment, in order
  outcomes,  \* outcomes[e]: what each finished operation was given and returned
  engine     \* the engine's execution function, as far as it has been asked

\* The account info the harness writes and the engine reads.
AccountInfo(balance, nonce, code_hash, code) ==
  [balance |-> balance, nonce |-> nonce, code_hash |-> code_hash, code |-> code]

\* B256::zero(), KECCAK_EMPTY and the hash of a bytecode.
HASH_ZERO == <<0>>
KECCAK_EMPTY == <<1>>
CodeHash(code) == <<2>> \o code

\* CacheDB::default(): no accounts; the contracts map knows the empty code.
NewDB == [accounts |-> [a \in {} |-> 0], contracts |-> {KECCAK_EMPTY, HASH_ZERO}]

\* CacheDB::insert_contract: registers the code by its hash and fills in the
\* info's code hash.
insert_contract(d, info) ==
  LET hashed == IF IsSome(info.code) /\ info.code[1] # <<>>
                THEN [info EXCEPT !.code_hash = CodeHash(info.code[1])]
                ELSE info
      fixed == IF hashed.code_hash = HASH_ZERO
               THEN [hashed EXCEPT !.code_hash = KECCAK_EMPTY] ELSE hashed
  IN [db |-> [d EXCEPT !.contracts = @ \cup {fixed.code_hash}], info |-> fixed]

\* CacheDB::insert_account_info: accounts.entry(addr).or_default().info = info;
\* an existing account keeps its storage.
insert_account_info(d, addr, info) ==
  [d EXCEPT !.accounts =
     [a \in DOMAIN d.accounts \cup {addr} |->
        IF a = addr
        THEN [info |-> info,
              storage |-> IF addr \in DOMAIN d.accounts
                          THEN d.accounts[addr].storage ELSE {}]
        ELSE d.accounts[a]]]

\* MipsEVM::deploy_contract
deploy_contract(d, addr, code) ==
  LET acc_info == AccountInfo(0, 0, HASH_ZERO, Some(code))
      ic == insert_contract(d, acc_info)
  IN insert_account_info(ic.db, addr, ic.info)

\* MipsEVM::fill_tx_env
fill_tx_env(transact_to, data) ==
  [caller |-> ZERO_ADDR, gas_limit |-> 0, gas_price |-> 0, gas_priority_fee |-> None,
   transact_to |-> transact_to, value |-> 0, data |-> data, chain_id |-> None,
   nonce |-> None, access_list |-> <<>>]

\* TransactTo::Create(CreateScheme::Create) and TransactTo::Call(addr)
TransactCreate == [kind |-> "Create", addr |-> <<>>]
TransactCall(addr) == [kind |-> "Call", addr |-> addr]

\* ------------------------------------------------------- the engine (revm)

EngineErr == [kind |-> "Err", output_kind |-> "None", output |-> <<>>, logs |-> <<>>,
              writes |-> {}]
NonSuccess(k) == [kind |-> k, output_kind |-> "None", output |-> <<>>, logs |-> <<>>,
                  writes |-> {}]
Success(ok, out, logs, writes) ==
  [kind |-> "Success", output_kind |-> ok, output |-> out, logs |-> logs,
   writes |-> writes]

\* The runtime code a successful creation returns: the stepper's code with the
\* constructor argument (the last 32 bytes of the input) set as its immutable.
RuntimeCode(data) == <<96, 128>> \o SubSeq(data, Len(data) - 31, Len(data))

\* What the stepper module may return and emit.
StepOutputs == {state_hash(sw) : sw \in StateSamples} \cup {<<>>, Fill(33, 0)}
LogData == StateSamples \cup {Fill(STATE_WITNESS_SIZE - 1, 0)}
\* The harness reads the number of logs and the first log's data: the sampled
\* log lists vary the first record and repeat one record after it.
LogSeqs ==
  {<<>>} \cup {[i \in 1..n |-> IF i = 1 THEN d ELSE Fill(STATE_WITNESS_SIZE, 0)] :
                d \in LogData, n \in 1..MaxLogs}

CodeAt(d, addr) ==
  IF addr \in DOMAIN d.accounts THEN d.accounts[addr].info.code ELSE None

\* What an execution reads: the transaction's target and input, the code it
\* runs and the storage of the environment.
EngineKey(d, t) ==
  [to |-> t.transact_to, data |-> t.data,
   code |-> IF t.transact_to.kind = "Call" THEN CodeAt(d, t.transact_to.addr) ELSE None,
   storage |-> {<<a, d.accounts[a].storage>> :
                  a \in {x \in DOMAIN d.accounts : d.accounts[x].storage # {}}}]

\* The answers the engine may give to an execution it has not run before.
EngineResults(key) ==
  CASE key.to.kind = "Create" ->
         {EngineErr, NonSuccess("Revert"), NonSuccess("Halt"),
          Success("Create", RuntimeCode(key.data), <<>>, {})}
    [] key.code = None \/ key.code = Some(<<>>) ->
         {EngineErr, Success("Call", <<>>, <<>>, {})}
    [] key.code = Some(PREIMAGE_ORACLE_DEPLOYED_CODE) ->
         {EngineErr, NonSuccess("Revert"), NonSuccess("Halt"),
          Success("Call", <<>>, <<>>, {key.data[Len(key.data)]})}
    [] OTHER ->
         {EngineErr, NonSuccess("Revert"), NonSuccess("Halt")}
         \cup {Success("Call", out, logs, {}) : out \in StepOutputs, logs \in LogSeqs}

\* The engine is deterministic: an execution it has run before gets the same answer.
Answers(key) == IF key \in DOMAIN engine THEN {engine[key]} ELSE EngineResults(key)
Remember(key, r) == (key :> r) @@ engine

\* The address a CREATE from the caller at its nonce would deploy to.
CreateAddress(nonce) == [i \in 1..20 |-> IF i = 20 THEN nonce % 256 ELSE 204]

InfoAt(d, addr) ==
  IF addr \in DOMAIN d.accounts THEN d.accounts[addr].info
  ELSE AccountInfo(0, 0, KECCAK_EMPTY, None)
StorageAt(d, addr) ==
  IF addr \in DOMAIN d.accounts THEN d.accounts[addr].storage ELSE {}

\* ResultAndState.state: the accounts an execution touched, with their new
\* values.  Every executed transaction advances the caller's nonce.
EngineState(d, t, r) ==
  LET caller == t.caller
      bumped == [info |-> [InfoAt(d, caller) EXCEPT !.nonce = @ + 1],
                 storage |-> StorageAt(d, caller)]
      target == IF t.transact_to.kind = "Call" THEN t.transact_to.addr
                ELSE CreateAddress(InfoAt(d, caller).nonce)
      touched == IF r.kind # "Success" THEN {caller}
                 ELSE IF t.transact_to.kind = "Create" \/ r.writes # {}
                      THEN {caller, target} ELSE {caller}
  IN [a \in touched |->
        IF a = target /\ a # caller
        THEN IF t.transact_to.kind = "Create"
             THEN [info |-> AccountInfo(0, 1, CodeHash(r.output), Some(r.output)),
                   storage |-> {}]
             ELSE [info |-> InfoAt(d, a), storage |-> StorageAt(d, a) \cup r.writes]
        ELSE bumped]

\* DatabaseCommit::commit: the touched accounts replace the stored ones.
Commit(d, state) ==
  [d EXCEPT !.accounts =
     [a \in DOMAIN d.accounts \cup DOMAIN state |->
        IF a \in DOMAIN state THEN state[a] ELSE d.accounts[a]]]

\* A commit that writes the touched accounts back without their code.
transact_commit_dropping_code(d, t, r) ==
  LET state == EngineState(d, t, r)
  IN Commit(d, [a \in DOMAIN state |->
                  [info |-> AccountInfo(state[a].info.balance, state[a].info.nonce,
                                        KECCAK_EMPTY, None),
                   storage |-> state[a].storage]])

\* EVM::transact_commit: the executed transaction's state is committed.
transact_commit(d, t, r) == Commit(d, EngineState(d, t, r))

\* transact_ref with the slip of committing the executed state.
transact_ref_committing(d, t, r) == Commit(d, EngineState(d, t, r))

\* EVM::transact_ref: the database is only read; the state is handed back to
\* the caller, who drops it (state: _).
transact_ref(d, t, r) == d

\* ---------------------------------------------------------------- MipsEVM

vars == <<db, tx, pc, ret, witness, res, calls, entryDb, hist, outcomes, engine>>

\* What an operation returned: Ok(val), Err(why), or a panic (the thread
\* unwinds and nothing is returned).
Returned(op, tag, val, why) == [op |-> op, tag |-> tag, val |-> val, why |-> why]

\* One engine call, as issued: the transaction, whether its state was
\* committed, the database it executed against and the engine's answer.
EngineCall(t, commit, seen, r) == [tx |-> t, commit |-> commit, seen |-> seen, result |-> r]

\* A finished operation: the witness it was given, what it returned and the
\* engine calls it issued.
Outcome(w, r, cs) == [witness |-> w, ret |-> r, calls |-> cs]

NoWitness == [state |-> <<>>, proof |-> <<>>, preimage_key |-> None]

\* An environment handed out again instead of built afresh: the second one
\* still holds a preimage an earlier case stored.
InitEvm_reused ==
  /\ db = [e \in Envs |->
             IF e = 1 THEN NewDB
             ELSE [NewDB EXCEPT !.accounts =
                     [a \in {PREIMAGE_ORACLE_ADDR} |->
                        [info |-> AccountInfo(0, 0, KECCAK_EMPTY, None), storage |-> {1}]]]]
  /\ tx = [e \in Envs |-> fill_tx_env(TransactCall(ZERO_ADDR), <<>>)]
  /\ pc = [e \in Envs |-> "idle"]
  /\ ret = [e \in Envs |-> Returned("new", "Ok", <<>>, "")]
  /\ witness = [e \in Envs |-> NoWitness]
  /\ res = [e \in Envs |-> EngineErr]
  /\ calls = [e \in Envs |-> <<>>]
  /\ entryDb = [e \in Envs |-> NewDB]
  /\ hist = [e \in Envs |-> <<>>]
  /\ outcomes = [e \in Envs |-> <<>>]
  /\ engine = [k \in {} |-> EngineErr]

\* MipsEVM::new(): EVM::default() with an empty CacheDB as its database.
InitEvm ==
  /\ db = [e \in Envs |-> NewDB]
  /\ tx = [e \in Envs |-> fill_tx_env(TransactCall(ZERO_ADDR), <<>>)]
  /\ pc = [e \in Envs |-> "idle"]
  /\ ret = [e \in Envs |-> Returned("new", "Ok", <<>>, "")]
  /\ witness = [e \in Envs |-> NoWitness]
  /\ res = [e \in Envs |-> EngineErr]
  /\ calls = [e \in Envs |-> <<>>]
  /\ entryDb = [e \in Envs |-> NewDB]
  /\ hist = [e \in Envs |-> <<>>]
  /\ outcomes = [e \in Envs |-> <<>>]
  /\ engine = [k \in {} |-> EngineErr]

\* try_init funding the sentinel by adding to its balance instead of setting it.
FundAndDeployOracle_increment(d) ==
  deploy_contract(
    insert_account_info(d, ZERO_ADDR,
      AccountInfo(InfoAt(d, ZERO_ADDR).balance + U128_MAX_BALANCE, 0, HASH_ZERO, None)),
    PREIMAGE_ORACLE_ADDR, PREIMAGE_ORACLE_DEPLOYED_CODE)

\* try_init, lines 50-65: fund the zero address, deploy the PreimageOracle.
FundAndDeployOracle(d) ==
  deploy_contract(
    insert_account_info(d, ZERO_ADDR, AccountInfo(U128_MAX_BALANCE, 0, HASH_ZERO, None)),
    PREIMAGE_ORACLE_ADDR, PREIMAGE_ORACLE_DEPLOYED_CODE)

\* try_init, line 70: the constructor argument appended to the creation code.
encoded_preimage_addr == into_word(MIPS_ADDR)

\* try_init, lines 71-74: the input of the creation call.
mips_creation_heap == MIPS_CREATION_CODE \o encoded_preimage_addr

\* try_init running the creation call with transact_commit: the created
\* account and the sender's advanced nonce are written to the database.
TryInitFinish_committing(d, r) ==
  IF r.kind = "Success" /\ r.output_kind = "Create"
  THEN [db |-> deploy_contract(transact_commit(d, fill_tx_env(TransactCreate, mips_creation_heap), r),
                                MIPS_ADDR, r.output),
        ret |-> Returned("try_init", "Ok", <<>>, "")]
  ELSE [db |-> transact_commit(d, fill_tx_env(TransactCreate, mips_creation_heap), r),
        ret |-> Returned("try_init", "Err", <<>>, "Failed to deploy MIPS contract")]

\* try_init installing the creation call's input (the creation code and its
\* argument) instead of the runtime code the call returned.
TryInitFinish_input(d, r) ==
  IF r.kind = "Success" /\ r.output_kind = "Create"
  THEN [db |-> deploy_contract(transact_ref(d, fill_tx_env(TransactCreate, mips_creation_heap), r),
                                MIPS_ADDR, mips_creation_heap),
        ret |-> Returned("try_init", "Ok", <<>>, "")]
  ELSE [db |-> transact_ref(d, fill_tx_env(TransactCreate, mips_creation_heap), r),
        ret |-> Returned("try_init", "Err", <<>>, "Failed to deploy MIPS contract")]

\* try_init, lines 79-95: the creation call's answer decides what is installed.
\* (self.inner.db() is Some in every MipsEVM that new() built.)
TryInitFinish(d, r) ==
  IF r.kind = "Success" /\ r.output_kind = "Create"
  THEN [db |-> deploy_contract(transact_ref(d, fill_tx_env(TransactCreate, mips_creation_heap), r),
                                MIPS_ADDR, r.output),
        ret |-> Returned("try_init", "Ok", <<>>, "")]
  ELSE [db |-> transact_ref(d, fill_tx_env(TransactCreate, mips_creation_heap), r),
        ret |-> Returned("try_init", "Err", <<>>, "Failed to deploy MIPS contract")]

\* MipsEVM::try_init
TryInit(e) ==
  /\ pc[e] = "idle"
  /\ Len(hist[e]) < MaxOps
  /\ LET d1 == FundAndDeployOracle(db[e])
         t == fill_tx_env(TransactCreate, mips_creation_heap)
         key == EngineKey(d1, t)
     IN \E r \in Answers(key) :
          LET fin == TryInitFinish(d1, r)
          IN /\ engine' = Remember(key, r)
             /\ tx' = [tx EXCEPT ![e] = t]
             /\ calls' = [calls EXCEPT ![e] = <<EngineCall(t, FALSE, d1, r)>>]
             /\ db' = [db EXCEPT ![e] = fin.db]
             /\ ret' = [ret EXCEPT ![e] = fin.ret]
             /\ outcomes' = [outcomes EXCEPT ![e] =
                               Append(@, Outcome(NoWitness, fin.ret,
                                                 <<EngineCall(t, FALSE, d1, r)>>))]
  /\ entryDb' = [entryDb EXCEPT ![e] = db[e]]
  /\ hist' = [hist EXCEPT ![e] = Append(@, "try_init")]
  /\ witness' = [witness EXCEPT ![e] = NoWitness]
  /\ res' = [res EXCEPT ![e] = EngineErr]
  /\ UNCHANGED pc

\* step, lines 108-134, up to the first engine call: where the invocation goes
\* next and the transaction it has prepared.
StepPrepare(w) ==
  IF has_preimage(w)
  THEN LET preimage_oracle_input == encode_preimage_oracle_input(w)
       IN IF preimage_oracle_input = None
          THEN [pc |-> "idle", tx |-> None,
                ret |-> Returned("step", "Err", <<>>,
                                 "Failed to ABI encode preimage oracle input.")]
          ELSE [pc |-> "preimage",
                tx |-> Some(fill_tx_env(TransactCall(PREIMAGE_ORACLE_ADDR),
                                        preimage_oracle_input[1])),
                ret |-> Returned("step", "Running", <<>>, "")]
  ELSE [pc |-> "stepcall",
        tx |-> Some(fill_tx_env(TransactCall(MIPS_ADDR), encode_step_input(w))),
        ret |-> Returned("step", "Running", <<>>, "")]

\* step is entered with a witness.
StepBegin(e, w) ==
  /\ pc[e] = "idle"
  /\ Len(hist[e]) < MaxOps
  /\ LET p == StepPrepare(w)
     IN /\ pc' = [pc EXCEPT ![e] = p.pc]
        /\ tx' = [tx EXCEPT ![e] = IF IsSome(p.tx) THEN p.tx[1] ELSE @]
        /\ ret' = [ret EXCEPT ![e] = p.ret]
        /\ outcomes' = [outcomes EXCEPT ![e] =
                          IF p.pc = "idle" THEN Append(@, Outcome(w, p.ret, <<>>)) ELSE @]
  /\ witness' = [witness EXCEPT ![e] = w]
  /\ entryDb' = [entryDb EXCEPT ![e] = db[e]]
  /\ calls' = [calls EXCEPT ![e] = <<>>]
  /\ res' = [res EXCEPT ![e] = EngineErr]
  /\ hist' = [hist EXCEPT ![e] = Append(@, "step")]
  /\ UNCHANGED <<db, engine>>

\* The PreimageCall executed as a dry run: its state is not committed.
PreimageFinish_dry(d, t, w, r) ==
  IF r.kind = "Err"
  THEN [pc |-> "idle", db |-> d, tx |-> t,
        ret |-> Returned("step", "Err", <<>>,
                         "Failed to commit preimage to PreimageOracle contract")]
  ELSE [pc |-> "stepcall", db |-> d,
        tx |-> fill_tx_env(TransactCall(MIPS_ADDR), encode_step_input(w)),
        ret |-> Returned("step", "Running", <<>>, "")]

\* step, lines 126-134: transact_commit of the PreimageCall.  Only an engine
\* error (Err) ends the invocation; any executed result is committed and the
\* StepCall is prepared.
PreimageFinish(d, t, w, r) ==
  IF r.kind = "Err"
  THEN [pc |-> "idle", db |-> d, tx |-> t,
        ret |-> Returned("step", "Err", <<>>,
                         "Failed to commit preimage to PreimageOracle contract")]
  ELSE [pc |-> "stepcall", db |-> transact_commit(d, t, r),
        tx |-> fill_tx_env(TransactCall(MIPS_ADDR), encode_step_input(w)),
        ret |-> Returned("step", "Running", <<>>, "")]

PreimageCall(e) ==
  /\ pc[e] = "preimage"
  /\ LET key == EngineKey(db[e], tx[e])
     IN \E r \in Answers(key) :
          LET fin == PreimageFinish(db[e], tx[e], witness[e], r)
          IN /\ engine' = Remember(key, r)
             /\ calls' = [calls EXCEPT ![e] = Append(@, EngineCall(tx[e], TRUE, db[e], r))]
             /\ db' = [db EXCEPT ![e] = fin.db]
             /\ tx' = [tx EXCEPT ![e] = fin.tx]
             /\ pc' = [pc EXCEPT ![e] = fin.pc]
             /\ ret' = [ret EXCEPT ![e] = fin.ret]
             /\ outcomes' = [outcomes EXCEPT ![e] =
                               IF fin.pc = "idle"
                               THEN Append(@, Outcome(witness[e], fin.ret,
                                                      <<EngineCall(tx[e], TRUE, db[e], r)>>))
                               ELSE @]
  /\ UNCHANGED <<witness, res, entryDb, hist>>

\* The StepCall executed with transact_commit: its state is written back.
StepCall_committing(e) ==
  /\ pc[e] = "stepcall"
  /\ LET key == EngineKey(db[e], tx[e])
     IN \E r \in Answers(key) :
          /\ engine' = Remember(key, r)
          /\ calls' = [calls EXCEPT ![e] = Append(@, EngineCall(tx[e], FALSE, db[e], r))]
          /\ res' = [res EXCEPT ![e] = r]
          /\ db' = [db EXCEPT ![e] = transact_commit(db[e], tx[e], r)]
  /\ pc' = [pc EXCEPT ![e] = "validate"]
  /\ UNCHANGED <<tx, ret, witness, entryDb, hist, outcomes>>

\* step, line 145: transact_ref of the StepCall; its state is dropped.
StepCall(e) ==
  /\ pc[e] = "stepcall"
  /\ LET key == EngineKey(db[e], tx[e])
     IN \E r \in Answers(key) :
          /\ engine' = Remember(key, r)
          /\ calls' = [calls EXCEPT ![e] = Append(@, EngineCall(tx[e], FALSE, db[e], r))]
          /\ res' = [res EXCEPT ![e] = r]
          /\ db' = [db EXCEPT ![e] = transact_ref(db[e], tx[e], r)]
  /\ pc' = [pc EXCEPT ![e] = "validate"]
  /\ UNCHANGED <<tx, ret, witness, entryDb, hist, outcomes>>

\* B256::from_slice panics unless the slice is 32 bytes long.
B256FromSliceOk(output) == Len(output) = 32

\* step, lines 135-168: the validation of the StepCall's answer.
StepValidate(r) ==
  IF r.kind = "Success" /\ r.output_kind = "Call"
  THEN IF ~B256FromSliceOk(r.output)
       THEN Returned("step", "Panic", <<>>, "B256::from_slice")
       ELSE IF Len(r.logs) # 1
       THEN Returned("step", "Err", <<>>, "Expected 1 log")
       ELSE LET post_state == TryIntoStateWitness(r.logs[1])
            IN IF ~post_state.ok
               THEN Returned("step", "Err", <<>>, "StateWitness size")
               ELSE IF state_hash(post_state.val) # r.output
               THEN Returned("step", "Err", <<>>,
                             "Post-state hash does not match state hash in log")
               ELSE Returned("step", "Ok", r.output, "")
  ELSE Returned("step", "Err", <<>>, "Failed to step MIPS contract")

\* step undoing, when it ends, every change made since it began.
Validate_rollback(e) ==
  /\ pc[e] = "validate"
  /\ LET out == StepValidate(res[e])
     IN /\ ret' = [ret EXCEPT ![e] = out]
        /\ outcomes' = [outcomes EXCEPT ![e] = Append(@, Outcome(witness[e], out, calls[e]))]
        /\ pc' = [pc EXCEPT ![e] = IF out.tag = "Panic" THEN "panicked" ELSE "idle"]
  /\ db' = [db EXCEPT ![e] = entryDb[e]]
  /\ UNCHANGED <<tx, witness, res, calls, entryDb, hist, engine>>

Validate(e) ==
  /\ pc[e] = "validate"
  /\ LET out == StepValidate(res[e])
     IN /\ ret' = [ret EXCEPT ![e] = out]
        /\ outcomes' = [outcomes EXCEPT ![e] = Append(@, Outcome(witness[e], out, calls[e]))]
        /\ pc' = [pc EXCEPT ![e] = IF out.tag = "Panic" THEN "panicked" ELSE "idle"]
  /\ UNCHANGED <<db, tx, witness, res, calls, entryDb, hist, engine>>

\* ------------------------------------------------- the codec experiment

serVars == <<codec, given, lenient, wire, got, sphase>>

allVars == <<vars, serVars>>

NoOutcome == [tag |-> "None", val |-> <<>>, why |-> ""]

\* The codec is not in use while the harness runs.
SerOff ==
  /\ codec = [name |-> "vec_u8_hex", form |-> "hex", size |-> None]
  /\ given = <<>>
  /\ lenient = FALSE
  /\ wire = None
  /\ got = NoOutcome
  /\ sphase = "off"

\* A buffer with varied bytes: every nibble value occurs.
Ramp(n) == [i \in 1..n |-> (i * 7 + 250) % 256]

ByteSamples == {0, 171, 255}

\* The buffers tried with a codec: for a fixed-size module the exact size and
\* one byte less and more (for deserialize only: serialize takes [u8; size]);
\* for vec_u8_hex every buffer up to MaxLen over the sampled bytes.
Buffers(c) ==
  IF IsSome(c.size)
  THEN UNION {{Fill(n, 0), Fill(n, 171), Ramp(n)} :
                n \in {c.size[1] - 1, c.size[1], c.size[1] + 1}}
  ELSE UNION {[1..n -> ByteSamples] : n \in 0..MaxLen}

InitSer ==
  /\ codec \in Codecs
  /\ given \in Buffers(codec)
  /\ lenient \in BOOLEAN
  /\ wire = None
  /\ got = NoOutcome
  /\ sphase = "start"

\* serialize is called with the buffer (a fixed-size module takes an array of
\* exactly its size).
DoSerialize ==
  /\ sphase = "start"
  /\ IsSome(codec.size) => Len(given) = codec.size[1]
  /\ wire' = Some(Serialize(codec, given))
  /\ sphase' = "serialized"
  /\ UNCHANGED <<codec, given, lenient, got>>

\* The text deserialize expects for the buffer: "0x" and hex digits, or the
\* base64 text of the compressed bytes.
WellFormed(c, bytes) ==
  IF c.form = "hex" THEN WireStr(<<48, 120>> \o hex_encode(bytes))
  ELSE WireStr(base64_encode(compress_bytes(bytes)))

\* A text with its last character replaced by '!'.
Garbled(w) == [w EXCEPT !.data = [@ EXCEPT ![Len(@)] = 33]]

\* deserialize is given a text that was not produced by serialize: well formed
\* for a buffer of any length, or garbled.
DoForeign ==
  /\ sphase = "start"
  /\ \E garble \in BOOLEAN :
       wire' = Some(IF garble THEN Garbled(WellFormed(codec, given))
                    ELSE WellFormed(codec, given))
  /\ sphase' = "foreign"
  /\ UNCHANGED <<codec, given, lenient, got>>

\* deserialize is called with the value at hand.
DoDeserialize ==
  /\ sphase \in {"serialized", "foreign"}
  /\ got' = Deserialize(codec, wire[1], lenient)
  /\ sphase' = IF sphase = "serialized" THEN "roundtrip" ELSE "decoded"
  /\ UNCHANGED <<codec, given, lenient, wire>>

NextSer ==
  \/ DoSerialize /\ UNCHANGED vars
  \/ DoForeign /\ UNCHANGED vars
  \/ DoDeserialize /\ UNCHANGED vars

InitCodec == InitEvm /\ InitSer

SpecSer == InitCodec /\ [][NextSer]_allVars


\* ------------------------------------------------------ the test driver

Init == InitEvm /\ SerOff

\* The test driver works on environment 1: it initializes and steps in any order.
Next ==
  \/ TryInit(1) /\ UNCHANGED serVars
  \/ \E w \in Witnesses : StepBegin(1, w) /\ UNCHANGED serVars
  \/ PreimageCall(1) /\ UNCHANGED serVars
  \/ StepCall(1) /\ UNCHANGED serVars
  \/ Validate(1) /\ UNCHANGED serVars

Spec == Init /\ [][Next]_allVars

\* A running step is carried on: every engine call returns and the validation
\* runs (step is synchronous, nothing else can run in between).
StepProgress == (PreimageCall(1) \/ StepCall(1) \/ Validate(1)) /\ UNCHANGED serVars

SpecLive == Init /\ [][Next]_allVars /\ WF_allVars(StepProgress)

\* ------------------------------------------- the determinism experiment

\* An operation on the environment has run to its end.
Finished(e) == pc[e] \in {"idle", "panicked"}

\* initialize followed by one step has run on the environment.
ScriptDone(e) == Len(hist[e]) = 2 /\ Finished(e)

\* Two environments built by new(): on each, try_init and then step with the
\* same witness; the second environment starts when the first has finished.
NextDet ==
  \/ hist[1] = <<>> /\ TryInit(1) /\ UNCHANGED serVars
  \/ \E w \in Witnesses :
       hist[1] = <<"try_init">> /\ StepBegin(1, w) /\ UNCHANGED serVars
  \/ PreimageCall(1) /\ UNCHANGED serVars
  \/ StepCall(1) /\ UNCHANGED serVars
  \/ Validate(1) /\ UNCHANGED serVars
  \/ ScriptDone(1) /\ hist[2] = <<>> /\ TryInit(2) /\ UNCHANGED serVars
  \/ ScriptDone(1) /\ hist[2] = <<"try_init">> /\ StepBegin(2, witness[1])
       /\ UNCHANGED serVars
  \/ PreimageCall(2) /\ UNCHANGED serVars
  \/ StepCall(2) /\ UNCHANGED serVars
  \/ Validate(2) /\ UNCHANGED serVars

SpecDet == Init /\ [][NextDet]_allVars

\* --------------------------------------- the shared-environment experiment

\* try_init and two steps have run on the environment.
SharedDone(e) == Len(hist[e]) = 3 /\ Finished(e)

\* Environment 1 is shared by two test cases: try_init, then two steps, one
\* after the other.  Environment 2 is the baseline for the second case: built
\* by new(), try_init, then the second case's step alone.
NextShared ==
  \/ hist[1] = <<>> /\ TryInit(1) /\ UNCHANGED serVars
  \/ \E w \in Witnesses :
       /\ Len(hist[1]) \in {1, 2} /\ hist[1][1] = "try_init"
       /\ StepBegin(1, w) /\ UNCHANGED serVars
  \/ PreimageCall(1) /\ UNCHANGED serVars
  \/ StepCall(1) /\ UNCHANGED serVars
  \/ Validate(1) /\ UNCHANGED serVars
  \/ SharedDone(1) /\ hist[2] = <<>> /\ TryInit(2) /\ UNCHANGED serVars
  \/ SharedDone(1) /\ hist[2] = <<"try_init">> /\ StepBegin(2, witness[1])
       /\ UNCHANGED serVars
  \/ PreimageCall(2) /\ UNCHANGED serVars
  \/ StepCall(2) /\ UNCHANGED serVars
  \/ Validate(2) /\ UNCHANGED serVars

SpecShared == Init /\ [][NextShared]_allVars

\* ------------------------------------------------------------ the claims

\* A step invocation on environment 1 has returned (or panicked).
Terminated == ret[1].op = "step" /\ Finished(1)

\* step's entry condition: try_init had installed the stepper module when the
\* invocation began.
EntryInitialized == CodeAt(entryDb[1], MIPS_ADDR) # None

OracleCalls ==
  {i \in DOMAIN calls[1] : calls[1][i].tx.transact_to = TransactCall(PREIMAGE_ORACLE_ADDR)}
StepCalls ==
  {i \in DOMAIN calls[1] : calls[1][i].tx.transact_to = TransactCall(MIPS_ADDR)}

\* The engine calls of the invocation whose state was committed.
CommittedCalls ==
  {i \in DOMAIN calls[1] : calls[1][i].commit /\ calls[1][i].result.kind # "Err"}

\* C1: a step that returns a fingerprint h had a successful StepCall with
\* exactly one log whose payload decodes as a StateWitness hashing to the
\* call's return value h; every other invocation ends in Failed (a returned
\* error) without a fingerprint.
C1_DoneOrFailed ==
  (Terminated /\ EntryInitialized) =>
    \/ /\ ret[1].tag = "Ok"
       /\ res[1].kind = "Success"
       /\ Len(res[1].logs) = 1
       /\ TryIntoStateWitness(res[1].logs[1]).ok
       /\ state_hash(res[1].logs[1]) = res[1].output
       /\ ret[1].val = res[1].output
    \/ ret[1].tag = "Err" /\ ret[1].val = <<>>

\* C2: a StepCall that succeeds with 0 or with 2 or more logs makes step
\* return an error, whatever it returned and whatever the logs hold.
C2_WrongLogCountFails ==
  (Terminated /\ EntryInitialized /\ res[1].kind = "Success" /\ Len(res[1].logs) # 1)
    => (ret[1].tag = "Err" /\ ret[1].val = <<>>)

C7_CtorArgIsOracle ==
  \A i \in DOMAIN calls[1] :
    calls[1][i].tx.transact_to.kind = "Create" =>
      calls[1][i].tx.data = MIPS_CREATION_CODE \o into_word(PREIMAGE_ORACLE_ADDR)

\* C8 as claimed: a step that ends in Failed leaves the committed state as it
\* was before the invocation.
C8_NoChangeOnFailure ==
  (Terminated /\ EntryInitialized /\ ret[1].tag = "Err") => db[1] = entryDb[1]

\* C8, amended: a step that ends in Failed leaves the committed state as it
\* was before the invocation unless its PreimageCall was committed; then the
\* state is the one before the invocation with that commit applied.
C8_OnlyPreimageCommitStays ==
  (Terminated /\ ret[1].tag = "Err") =>
    IF CommittedCalls = {}
    THEN db[1] = entryDb[1]
    ELSE /\ CommittedCalls = {1} /\ OracleCalls = {1}
         /\ db[1] = Commit(entryDb[1],
                           EngineState(entryDb[1], calls[1][1].tx, calls[1][1].result))

\* C8's case: a failed step whose committed PreimageCall changed the state.
C8_Witness ==
  /\ Terminated /\ EntryInitialized /\ ret[1].tag = "Err" /\ CommittedCalls = {1}
  /\ StepCalls = {2}
  /\ db[1] # entryDb[1]

C10_InitIdempotent ==
  (Len(hist[1]) >= 2 /\ hist[1][Len(hist[1])] = "try_init"
     /\ hist[1][Len(hist[1]) - 1] = "try_init")
    => db[1] = entryDb[1]

\* C10's case: two successful try_init in a row, the sentinel funded once.
C10_Witness ==
  /\ hist[1] = <<"try_init", "try_init">> /\ ret[1].tag = "Ok"
  /\ InfoAt(db[1], ZERO_ADDR).balance = U128_MAX_BALANCE
  /\ CodeAt(db[1], MIPS_ADDR) # None
  /\ CodeAt(db[1], PREIMAGE_ORACLE_ADDR) = Some(PREIMAGE_ORACLE_DEPLOYED_CODE)

\* The text "0123456789abcdef".
LowerHexDigits == <<48, 49, 50, 51, 52, 53, 54, 55, 56, 57, 97, 98, 99, 100, 101, 102>>

\* C4: the compressed form round-trips: deserialize of what serialize produced
\* for a fixed-size buffer gives the buffer back.
C4_CompressedRoundTrip ==
  (sphase = "roundtrip" /\ codec.form = "base64") => got = DeOk(given)

\* C5: the hex form of a buffer is "0x" followed by two lowercase digits per
\* byte, and deserialize of that text gives the buffer back (fixed-size
\* modules and vec_u8_hex, the empty buffer included).
C5_HexRoundTrip ==
  (sphase \in {"serialized", "roundtrip"} /\ codec.form = "hex") =>
    /\ wire[1].kind = "str"
    /\ Len(wire[1].data) = 2 + 2 * Len(given)
    /\ wire[1].data[1] = 48 /\ wire[1].data[2] = 120
    /\ \A i \in 1..Len(given) :
         /\ wire[1].data[2 * i + 1] = LowerHexDigits[(given[i] \div 16) + 1]
         /\ wire[1].data[2 * i + 2] = LowerHexDigits[(given[i] % 16) + 1]
    /\ sphase = "roundtrip" => got = DeOk(given)

\* C5's case: a state witness with varied bytes went through the hex form.
C5_Witness ==
  /\ sphase = "roundtrip" /\ codec.name = "state_witness_hex"
  /\ given = Ramp(STATE_WITNESS_SIZE)
  /\ got.tag = "Ok" /\ got.val = given

\* C6: a fixed-size deserialize given a well-formed text of a buffer that is
\* shorter or longer than its size returns an error to its caller.
C6_SizeErrorReturned ==
  (sphase = "decoded" /\ IsSome(codec.size) /\ wire = Some(WellFormed(codec, given))
     /\ Len(given) # codec.size[1])
    => got.tag = "Err"

\* The creation call try_init issues on an environment built by new().
FreshCreationKey ==
  EngineKey(FundAndDeployOracle(NewDB), fill_tx_env(TransactCreate, mips_creation_heap))

\* try_init succeeded as the first operation on the environment.
FreshInitOk ==
  /\ Len(hist[1]) >= 1 /\ hist[1][1] = "try_init"
  /\ FreshCreationKey \in DOMAIN engine
  /\ engine[FreshCreationKey].kind = "Success"

\* C11: after a successful try_init on a fresh environment the sentinel is
\* funded, the oracle's deployed code is at PREIMAGE_ORACLE_ADDR and the code
\* at MIPS_ADDR is the runtime code the creation call returned; a call to
\* MIPS_ADDR issued by the operation right after it runs that code.
C11_InitInstalls ==
  /\ (FreshInitOk /\ Len(hist[1]) = 1) =>
       /\ ret[1] = Returned("try_init", "Ok", <<>>, "")
       /\ InfoAt(db[1], ZERO_ADDR).balance = U128_MAX_BALANCE
       /\ CodeAt(db[1], PREIMAGE_ORACLE_ADDR) = Some(PREIMAGE_ORACLE_DEPLOYED_CODE)
       /\ CodeAt(db[1], MIPS_ADDR) = Some(engine[FreshCreationKey].output)
       /\ calls[1][1].result = engine[FreshCreationKey]
  /\ (FreshInitOk /\ hist[1] = <<"try_init", "step">>) =>
       \A i \in StepCalls :
         /\ CodeAt(calls[1][i].seen, MIPS_ADDR) = Some(engine[FreshCreationKey].output)
         /\ EngineKey(calls[1][i].seen, calls[1][i].tx).code
              = Some(engine[FreshCreationKey].output)

\* C11's case: the step right after a successful first try_init called
\* MIPS_ADDR and the installed runtime code answered with a fingerprint.
C11_Witness ==
  /\ FreshInitOk /\ hist[1] = <<"try_init", "step">>
  /\ StepCalls # {} /\ ret[1].tag = "Ok"
  /\ CodeAt(db[1], MIPS_ADDR) = Some(RuntimeCode(mips_creation_heap))

\* The finished operations i..j of environment 1 are all steps without a
\* preimage disclosure.
PreimageFreeRun(i, j) ==
  \A k \in i..j :
    outcomes[1][k].ret.op = "step" /\ ~has_preimage(outcomes[1][k].witness)

\* C12: a step whose witness has no preimage disclosure leaves the committed
\* state as it was when the invocation began, while it runs and however it
\* ends; and the same preimage-free step repeated on the environment returns
\* what it returned before.
C12_StepCallDryRun ==
  /\ (ret[1].op = "step" /\ ~has_preimage(witness[1])) =>
       (db[1] = entryDb[1] /\ CommittedCalls = {})
  /\ \A i, j \in DOMAIN outcomes[1] :
       (i < j /\ PreimageFreeRun(i, j) /\ outcomes[1][i].witness = outcomes[1][j].witness)
         => outcomes[1][j].ret = outcomes[1][i].ret

\* C12's case: after try_init the same preimage-free step ran twice, issued
\* its StepCall, and returned a fingerprint both times.
C12_Witness ==
  /\ hist[1] = <<"try_init", "step", "step">> /\ Len(outcomes[1]) = 3
  /\ PreimageFreeRun(2, 3)
  /\ outcomes[1][2].ret.tag = "Ok" /\ outcomes[1][3].ret.tag = "Ok"
  /\ StepCalls = {1} /\ db[1] = entryDb[1]

\* C13: a step in which an engine call had a non-success result (revert,
\* halt or an engine error) ends in Failed, and after such a PreimageCall no
\* StepCall is issued.
C13_NonSuccessFails ==
  (ret[1].op = "step" /\ EntryInitialized) =>
    /\ (\E i \in OracleCalls : calls[1][i].result.kind # "Success") => StepCalls = {}
    /\ (Terminated /\ \E i \in DOMAIN calls[1] : calls[1][i].result.kind # "Success")
         => ret[1].tag = "Err"

\* C14: a StepCall that succeeds with return data that is not exactly 32
\* bytes long makes step return an error to its caller, whatever the length
\* and whatever the number of logs.
C14_MisShapedReturnFails ==
  (Terminated /\ EntryInitialized /\ StepCalls # {}
     /\ res[1].kind = "Success" /\ Len(res[1].output) # 32)
    => (ret[1].tag = "Err" /\ pc[1] = "idle")

\* A step invocation on environment 1 is under way.
StepRunning == ret[1].op = "step" /\ ret[1].tag = "Running"

\* The engine calls of a step: at most one PreimageCall, at most one
\* StepCall, nothing else, and the PreimageCall before the StepCall.
StepCallOrder ==
  ret[1].op = "step" =>
    /\ Cardinality(OracleCalls) <= 1 /\ Cardinality(StepCalls) <= 1
    /\ DOMAIN calls[1] = OracleCalls \cup StepCalls
    /\ \A i \in OracleCalls, j \in StepCalls : i < j
    /\ pc[1] = "preimage" => calls[1] = <<>>
    /\ pc[1] = "stepcall" => StepCalls = {}
    /\ pc[1] = "validate" => StepCalls # {}

\* C15: a step issues at most one PreimageCall and then at most one StepCall,
\* never a call again after it, and every invocation that has begun runs on
\* until it has returned Done (a fingerprint) or Failed (an error).
C15_StepRunsToDoneOrFailed ==
  /\ []StepCallOrder
  /\ (StepRunning /\ EntryInitialized)
       ~> (pc[1] = "idle" /\ ret[1].op = "step" /\ ret[1].tag \in {"Ok", "Err"})

\* The two fixed addresses of the deployed modules.
ModuleAddrs == {MIPS_ADDR, PREIMAGE_ORACLE_ADDR}

\* try_init succeeded as the first operation and only steps came after it.
OnlyStepsSinceInit ==
  FreshInitOk /\ \A k \in 2..Len(hist[1]) : hist[1][k] = "step"

\* C16: step never installs or replaces code: while and after a step runs,
\* the code at the two module addresses and the set of known contracts are
\* those the invocation found; after a successful try_init followed by any
\* steps the modules hold the code try_init installed.
C16_ModulesReadOnly ==
  /\ ret[1].op = "step" =>
       /\ \A a \in ModuleAddrs : CodeAt(db[1], a) = CodeAt(entryDb[1], a)
       /\ db[1].contracts = entryDb[1].contracts
  /\ OnlyStepsSinceInit =>
       /\ CodeAt(db[1], PREIMAGE_ORACLE_ADDR) = Some(PREIMAGE_ORACLE_DEPLOYED_CODE)
       /\ CodeAt(db[1], MIPS_ADDR) = Some(engine[FreshCreationKey].output)

\* C16's case: after try_init a step with a committed PreimageCall returned
\* a fingerprint and a later step failed; the oracle holds the preimage.
C16_Witness ==
  /\ OnlyStepsSinceInit /\ Len(outcomes[1]) = 3 /\ pc[1] = "idle"
  /\ has_preimage(outcomes[1][2].witness) /\ outcomes[1][2].ret.tag = "Ok"
  /\ outcomes[1][3].ret.tag = "Err"
  /\ StorageAt(db[1], PREIMAGE_ORACLE_ADDR) # {}
  /\ CodeAt(db[1], MIPS_ADDR) = Some(RuntimeCode(mips_creation_heap))

\* C17: a try_init that fails because the creation call did not succeed
\* returns an error and leaves the account state as it was before the call:
\* the sentinel is not funded and no oracle code is installed.
C17_NoPartialInit ==
  (ret[1].op = "try_init" /\ calls[1][1].result.kind # "Success") =>
    /\ ret[1].tag = "Err"
    /\ db[1] = entryDb[1]

\* What the committed calls among cs wrote to the oracle's storage.
CommittedWrites(cs) ==
  UNION {cs[i].result.writes : i \in {n \in DOMAIN cs : cs[n].commit}}

\* The StepCalls among the engine calls cs.
StepCallsOf(cs) == {i \in DOMAIN cs : cs[i].tx.transact_to = TransactCall(MIPS_ADDR)}

\* The call cs[i] was executed with the writes ws in the oracle's storage, and
\* that storage is part of what the execution reads.
ReadsWrites(cs, i, ws) ==
  /\ ws \subseteq StorageAt(cs[i].seen, PREIMAGE_ORACLE_ADDR)
  /\ ws # {} => <<PREIMAGE_ORACLE_ADDR, StorageAt(cs[i].seen, PREIMAGE_ORACLE_ADDR)>>
                  \in EngineKey(cs[i].seen, cs[i].tx).storage

\* The baseline case on environment 2 has run.
BaselineDone == Len(hist[2]) = 2 /\ Finished(2)

\* C18: on the shared environment, what the PreimageCall of a step committed
\* is in the environment after the step has returned and is read by the
\* StepCall of every later step; inside a step nothing comes between its
\* PreimageCall and its StepCall; and a step that ends otherwise than on a
\* fresh environment does so only after an earlier step committed a preimage.
C18_CommitsPersist ==
  /\ \A k \in DOMAIN outcomes[1] :
       LET ws == CommittedWrites(outcomes[1][k].calls)
           cs == outcomes[1][k].calls
       IN /\ ws \subseteq StorageAt(db[1], PREIMAGE_ORACLE_ADDR)
          /\ \A j \in DOMAIN outcomes[1] :
               j > k => \A i \in StepCallsOf(outcomes[1][j].calls) :
                          ReadsWrites(outcomes[1][j].calls, i, ws)
          /\ Len(outcomes[1]) < Len(hist[1]) =>
               \A i \in StepCalls : ReadsWrites(calls[1], i, ws)
          /\ (Len(cs) = 2 /\ cs[1].commit) =>
               /\ StepCallsOf(cs) = {2}
               /\ cs[2].seen = transact_commit(cs[1].seen, cs[1].tx, cs[1].result)
  /\ (SharedDone(1) /\ BaselineDone /\ ret[2] # ret[1]) =>
       \E k \in 1..2 : /\ has_preimage(outcomes[1][k].witness)
                        /\ CommittedWrites(outcomes[1][k].calls) # {}

\* C18's case: the second case on the shared environment, a step without a
\* disclosure, failed after an earlier step had committed a preimage that its
\* StepCall read, while the same step on a fresh environment returned a
\* fingerprint.
C18_Witness ==
  /\ SharedDone(1) /\ BaselineDone
  /\ witness[2] = witness[1] /\ ~has_preimage(witness[1])
  /\ ret[1].tag = "Err" /\ ret[2].tag = "Ok"
  /\ CommittedWrites(outcomes[1][2].calls) # {}
  /\ StepCalls = {1}
  /\ ReadsWrites(calls[1], 1, CommittedWrites(outcomes[1][2].calls))

\* The three accounts try_init writes directly.
DirectInstalls == {ZERO_ADDR, PREIMAGE_ORACLE_ADDR, MIPS_ADDR}

\* The state delta the engine handed back for the creation call of the last
\* try_init.
CreationDelta == EngineState(calls[1][1].seen, calls[1][1].tx, calls[1][1].result)

\* C19: the creation call of try_init is a dry run.  After a successful
\* try_init the database is the one at entry with the three direct installs
\* and nothing else: no account at the creation address, the sentinel's nonce
\* not advanced.  (After a failed one, only the first two installs.)
C19_CreationIsDryRun ==
  ret[1].op = "try_init" =>
    /\ calls[1][1].tx.transact_to = TransactCreate /\ ~calls[1][1].commit
    /\ InfoAt(db[1], ZERO_ADDR).nonce = 0
    /\ CreateAddress(InfoAt(calls[1][1].seen, ZERO_ADDR).nonce) \notin DOMAIN db[1].accounts
    /\ IF ret[1].tag = "Ok"
       THEN /\ db[1] = deploy_contract(FundAndDeployOracle(entryDb[1]), MIPS_ADDR,
                                        calls[1][1].result.output)
            /\ DOMAIN db[1].accounts = DOMAIN entryDb[1].accounts \cup DirectInstalls
       ELSE db[1] = FundAndDeployOracle(entryDb[1])

\* C19's case: try_init succeeded on a fresh environment; the discarded delta
\* held the created account and the sentinel with its nonce advanced.
C19_Witness ==
  /\ hist[1] = <<"try_init">> /\ ret[1].tag = "Ok"
  /\ DOMAIN db[1].accounts = DirectInstalls
  /\ CreateAddress(0) \in DOMAIN CreationDelta
  /\ CreationDelta[CreateAddress(0)].info.code = Some(calls[1][1].result.output)
  /\ CreationDelta[ZERO_ADDR].info.nonce = 1

====
